---- MODULE Spec2Model ----
(***************************************************************************)
(* A model of src/preprocess.py: the duration filter, the key normaliser,  *)
(* the time-series encoder, the corpus assembler, the vocabulary builder   *)
(* and the sequence generator, and the batch run that chains them.         *)
(*                                                                         *)
(* Representation.                                                         *)
(*  - A duration (quarterLength) and a time step are counted in eighths of *)
(*    a quarter note: 0.25 is 2, 0.375 is 3, 1.0 is 8.  All values used    *)
(*    are dyadic, so Python's float division is exact on them.             *)
(*  - A Python str is a sequence of atoms: SP (one space) or a token's     *)
(*    text.  Tokens hold no white space, so join, concatenation, slicing   *)
(*    off the last character (always a space here) and split act on atoms  *)
(*    as they act on characters; two atoms with no SP between them are one *)
(*    token, as in Python.                                                 *)
(*  - A pitch is its MIDI number; a key's tonic is its pitch-space value   *)
(*    in the default octave (C = 60 ... B = 71).                           *)
(***************************************************************************)
EXTENDS Integers, Sequences, FiniteSets, TLC

VARIABLES
    pc,             \* position of generate_model_ready_dataset
    run,            \* number of the current execution of the script
    dataset,        \* the krn files under DATASET_PATH, in os.walk order
    scores,         \* songs_as_music21_scores, the loaded scores
    idx,            \* enumerate index i of the loop in preprocess
    songs_dir,      \* SONGS_DIR: file name (an integer as text) -> content
    dataset_file,   \* content of the file UNIVERSAL_DATASET
    songs,          \* the value returned by create_universal_dataset
    mappings_file,  \* content of the file MAPPINGS_PATH
    result,         \* (inputs, targets) of generate_training_sequences
    error,          \* the exception that ended the run, or "none"
    outcomes,       \* how each finished execution ended, oldest first
    call,           \* a single function call: the function and its arguments
    ret             \* what that call returned, or NotCalled

vars == <<pc, run, dataset, scores, idx, songs_dir, dataset_file, songs,
          mappings_file, result, error, outcomes, call, ret>>

pipeVars == <<pc, run, dataset, scores, idx, songs_dir, dataset_file, songs,
              mappings_file, result, error, outcomes>>

(***************************************************************************)
(* Program constants                                                       *)
(***************************************************************************)
SEQUENCE_LENGTH == 64

\* 0.25, 0.5, 0.75, 1.0, 1.5, 2, 3, 4 quarter lengths, in eighths of a quarter
ACCEPTABLE_DURATIONS == {2, 4, 6, 8, 12, 16, 24, 32}

\* the default of encode_song's time_step, 0.25
DefaultTimeStep == 2

SP == " "
HOLD == "_"
REST == "r"
DELIM == "/"

(***************************************************************************)
(* Bounds of the model                                                     *)
(***************************************************************************)
MaxEvents == 2      \* events of a score handed to a single function
MaxDur == 6         \* longest duration of such an event (eighths of a quarter)
MaxTimeStep == 4    \* largest time step tried
MaxSongs == 2       \* files in the dataset directory of one run
MaxRuns == 2        \* executions of the script
MaxFiles == 3       \* per-score files handed to create_universal_dataset
MaxTokens == 2      \* tokens of such a file
MaxSeqLen == 3      \* largest sequence_length tried
MaxCorpus == 5      \* atoms of a corpus string handed to create_mapping

(***************************************************************************)
(* Sequences                                                               *)
(***************************************************************************)
Range(s) == {s[k] : k \in DOMAIN s}

SeqsUpTo(S, n) == UNION {[1..k -> S] : k \in 0..n}

\* s * n for a Python str or list
RECURSIVE Repeat(_, _)
Repeat(s, n) == IF n <= 0 THEN <<>> ELSE s \o Repeat(s, n - 1)

\* s[:-1]
DropLast(s) == IF Len(s) = 0 THEN s ELSE SubSeq(s, 1, Len(s) - 1)

\* " ".join(toks)
RECURSIVE Join(_)
Join(toks) ==
    IF Len(toks) = 0 THEN <<>>
    ELSE IF Len(toks) = 1 THEN <<toks[1]>>
    ELSE <<toks[1], SP>> \o Join(Tail(toks))

\* the characters of s[lo..hi], which holds no space, as one token
RECURSIVE TokenText(_, _, _)
TokenText(s, lo, hi) ==
    IF lo = hi THEN s[lo] ELSE s[lo] \o TokenText(s, lo + 1, hi)

Distance(a, b) == IF a >= b THEN a - b ELSE b - a

\* the tokens of s[lo..hi]: cut at a space (the one nearest the middle, which
\* keeps the recursion shallow) and split both sides
RECURSIVE SplitRange(_, _, _)
SplitRange(s, lo, hi) ==
    IF lo > hi THEN <<>>
    ELSE LET spaces == {p \in lo..hi : s[p] = SP}
             mid == (lo + hi) \div 2
         IN  IF spaces = {} THEN <<TokenText(s, lo, hi)>>
             ELSE LET p == CHOOSE c \in spaces :
                               \A q \in spaces : Distance(c, mid) <= Distance(q, mid)
                  IN  SplitRange(s, lo, p - 1) \o SplitRange(s, p + 1, hi)

\* str.split(): the maximal runs of non-space characters, in order
Split(s) == SplitRange(s, 1, Len(s))

(***************************************************************************)
(* Scores                                                                  *)
(***************************************************************************)
Note(p, d) == [kind |-> "note", pitch |-> p, dur |-> d]
Rest(d) == [kind |-> "rest", dur |-> d]

Key(t, m) == [cls |-> "Key", tonic |-> t, mode |-> m]
\* what measure 0 holds at index 4 when that is not a Key
OtherElement == [cls |-> "Other", tonic |-> 0, mode |-> "none"]

\* song.flatten().notes: the notes, without the rests
Notes(song) == SelectSeq(song.events, LAMBDA e : e.kind = "note")

\* song.flatten().notesAndRests
NotesAndRests(song) == song.events

(***************************************************************************)
(* has_acceptable_note_durations                                           *)
(***************************************************************************)
RECURSIVE DurationLoop(_, _, _)
DurationLoop(notes, k, acceptable_durations) ==
    IF k > Len(notes) THEN TRUE
    ELSE IF notes[k].dur \notin acceptable_durations THEN FALSE
    ELSE DurationLoop(notes, k + 1, acceptable_durations)

has_acceptable_note_durations(song, acceptable_durations) ==
    DurationLoop(Notes(song), 1, acceptable_durations)

(***************************************************************************)
(* transpose                                                               *)
(***************************************************************************)
PitchC == 60
PitchA == 69

\* the key of the song: element 4 of the first measure, else the estimate
KeyOf(song) ==
    IF song.element4.cls = "Key" THEN song.element4 ELSE song.analysis

\* m21.interval.Interval(start, end), in semitones
Interval(start, end) == end - start

\* song.transpose(interval): every pitch moves by the interval
TransposeBy(song, interval) ==
    [song EXCEPT !.events =
        [k \in DOMAIN song.events |->
            IF song.events[k].kind = "note"
            THEN [song.events[k] EXCEPT !.pitch = @ + interval]
            ELSE song.events[k]]]

\* an interval that takes a minor key to C as well
TransposeIntervalAlwaysC(key) ==
    IF key.mode \in {"major", "minor"}
    THEN [bound |-> TRUE, semitones |-> Interval(key.tonic, PitchC)]
    ELSE [bound |-> FALSE, semitones |-> 0]

\* the interval of lines 77-80; unbound when the mode is neither
TransposeInterval(key) ==
    IF key.mode = "major" THEN [bound |-> TRUE, semitones |-> Interval(key.tonic, PitchC)]
    ELSE IF key.mode = "minor" THEN [bound |-> TRUE, semitones |-> Interval(key.tonic, PitchA)]
    ELSE [bound |-> FALSE, semitones |-> 0]

\* [ok, value]: the transposed song, or the exception raised
transpose(song) ==
    IF song.element4.cls = "IndexError"
    THEN [ok |-> FALSE, exc |-> "IndexError", value |-> song]
    ELSE LET interval == TransposeInterval(KeyOf(song))
         IN  IF interval.bound
             THEN [ok |-> TRUE, exc |-> "none",
                   value |-> TransposeBy(song, interval.semitones)]
             ELSE [ok |-> FALSE, exc |-> "UnboundLocalError", value |-> song]

(***************************************************************************)
(* encode_song                                                             *)
(***************************************************************************)
\* the symbol of an event as line 113 writes it: str(midi) or "r"
EncodingSymbol(event) ==
    IF event.kind = "note" THEN ToString(event.pitch) ELSE REST

\* Python's round(dur / time_step): to nearest, a tie to the even neighbour
Round(dur, time_step) ==
    LET q == dur \div time_step
        r == dur % time_step
    IN  IF 2 * r < time_step THEN q
        ELSE IF 2 * r > time_step THEN q + 1
        ELSE IF q % 2 = 0 THEN q ELSE q + 1

\* a step count that rounds to nearest where the code truncates
StepCountRounded(dur, time_step) == Round(dur, time_step)

\* int(quarterLength / time_step)
StepCount(dur, time_step) == dur \div time_step

\* an inner loop that writes the symbol at every step and never a hold
EventTokensNoHold(symbol, step_count) == [step \in 1..step_count |-> symbol]

\* the inner loop: the symbol at step 0, "_" at every later step
EventTokens(symbol, step_count) ==
    [step \in 1..step_count |-> IF step = 1 THEN symbol ELSE HOLD]

RECURSIVE EncodeLoop(_, _, _)
EncodeLoop(events, k, time_step) ==
    IF k > Len(events) THEN <<>>
    ELSE EventTokens(EncodingSymbol(events[k]), StepCount(events[k].dur, time_step))
         \o EncodeLoop(events, k + 1, time_step)

encode_song(song, time_step) == Join(EncodeLoop(NotesAndRests(song), 1, time_step))

(***************************************************************************)
(* create_universal_dataset                                                *)
(***************************************************************************)
\* a delimiter of one "/ " whatever the sequence length
new_song_delimiter_single(sequence_length) == <<DELIM, SP>>

\* "/ " * sequence_length
new_song_delimiter(sequence_length) == Repeat(<<DELIM, SP>>, sequence_length)

\* the loop of lines 151-155 over the files' contents in os.walk order
RECURSIVE AssembleLoop(_, _, _, _)
AssembleLoop(contents, k, acc, sequence_length) ==
    IF k > Len(contents) THEN acc
    ELSE AssembleLoop(contents, k + 1,
                      acc \o contents[k] \o <<SP>> \o new_song_delimiter(sequence_length),
                      sequence_length)

\* the string written to dataset_path and returned
create_universal_dataset(contents, sequence_length) ==
    DropLast(AssembleLoop(contents, 1, <<>>, sequence_length))

(***************************************************************************)
(* create_mapping                                                          *)
(***************************************************************************)
\* the orders in which a set may be listed
Orderings(S) ==
    {f \in [1..Cardinality(S) -> S] : \A a, b \in DOMAIN f : f[a] = f[b] => a = b}

\* the tokens listed without set(): repeated tokens stay
VocabularyListsWithRepeats(songs_str) == {Split(songs_str)}

\* list(set(songs.split())): the distinct tokens, in an order Python picks
VocabularyLists(songs_str) == Orderings(Range(Split(songs_str)))

\* {symbol: index for index, symbol in enumerate(vocabulary)}: a later index
\* replaces an earlier one of the same symbol
DictOfEnumerate(vocabulary) ==
    [symbol \in Range(vocabulary) |->
        (CHOOSE k \in DOMAIN vocabulary :
            /\ vocabulary[k] = symbol
            /\ \A j \in DOMAIN vocabulary : vocabulary[j] = symbol => j <= k) - 1]

\* the mappings create_mapping may write to mappings_path (json keeps string
\* keys and integer values as they are)
create_mapping(songs_str) == {DictOfEnumerate(v) : v \in VocabularyLists(songs_str)}

(***************************************************************************)
(* convert_songs_to_int and generate_training_sequences                    *)
(***************************************************************************)
\* [ok, value]: the integers of the tokens, or KeyError
convert_songs_to_int(songs_str, vocabulary_mapping) ==
    LET toks == Split(songs_str)
    IN  IF \E k \in DOMAIN toks : toks[k] \notin DOMAIN vocabulary_mapping
        THEN [ok |-> FALSE, exc |-> "KeyError", value |-> <<>>]
        ELSE [ok |-> TRUE, exc |-> "none",
              value |-> [k \in DOMAIN toks |-> vocabulary_mapping[toks[k]]]]

\* range(len(int_songs) - sequence_length): empty when that is not positive
NumberOfSequences(int_songs, sequence_length) ==
    IF Len(int_songs) - sequence_length > 0 THEN Len(int_songs) - sequence_length ELSE 0

\* int_songs[i:i + sequence_length] for i = k - 1
Window(int_songs, k, sequence_length) == SubSeq(int_songs, k, k + sequence_length - 1)

\* numpy's shape of a list of equally long lists; an empty list has shape (0,)
ArrayShape(x) == IF Len(x) = 0 THEN <<0>> ELSE <<Len(x), Len(x[1])>>

\* keras.utils.to_categorical(x, num_classes): the one-hot array, kept as its
\* shape and, for each place of x, the index that holds the 1.  With
\* num_classes 0 the width is inferred as max(x) + 1, which numpy refuses on
\* an empty x; a trailing dimension of 1 is dropped from the shape.
to_categorical(x, num_classes) ==
    LET input_shape == ArrayShape(x)
        shrunk == IF Len(input_shape) > 1 /\ input_shape[Len(input_shape)] = 1
                  THEN DropLast(input_shape) ELSE input_shape
        flat == UNION {Range(x[k]) : k \in DOMAIN x}
        width == IF num_classes # 0 THEN num_classes
                 ELSE (CHOOSE m \in flat : \A v \in flat : v <= m) + 1
    IN  IF num_classes = 0 /\ flat = {}
        THEN [ok |-> FALSE, exc |-> "ValueError", shape |-> <<>>, hot |-> <<>>]
        ELSE IF \E v \in flat : v >= width
        THEN [ok |-> FALSE, exc |-> "IndexError", shape |-> <<>>, hot |-> <<>>]
        ELSE [ok |-> TRUE, exc |-> "none", shape |-> Append(shrunk, width), hot |-> x]

\* what the function returns, or the exception it raises
generate_training_sequences(sequence_length, file, vocabulary_mapping) ==
    LET conv == convert_songs_to_int(file, vocabulary_mapping)
        int_songs == conv.value
        n == NumberOfSequences(int_songs, sequence_length)
        inputs == [k \in 1..n |-> Window(int_songs, k, sequence_length)]
        targets == [k \in 1..n |-> int_songs[k + sequence_length]]
        vocabulary_size == Cardinality(Range(int_songs))
        onehot == to_categorical(inputs, vocabulary_size)
    IN  IF ~conv.ok
        THEN [ok |-> FALSE, exc |-> conv.exc, inputs |-> <<>>, targets |-> <<>>,
              shape |-> <<>>, targets_shape |-> <<>>]
        ELSE IF ~onehot.ok
        THEN [ok |-> FALSE, exc |-> onehot.exc, inputs |-> <<>>, targets |-> <<>>,
              shape |-> <<>>, targets_shape |-> <<>>]
        ELSE [ok |-> TRUE, exc |-> "none", inputs |-> onehot.hot, targets |-> targets,
              shape |-> onehot.shape, targets_shape |-> <<Len(targets)>>]


(***************************************************************************)
(* Single calls of the score functions                                     *)
(***************************************************************************)
NotCalled == [fn |-> "none"]

\* the state of the batch run while single calls are examined
PipeIdle ==
    /\ pc = "idle" /\ run = 0 /\ dataset = <<>> /\ scores = <<>> /\ idx = 0
    /\ songs_dir = <<>> /\ dataset_file = <<>> /\ songs = <<>>
    /\ mappings_file = <<>> /\ result = <<>> /\ error = "none" /\ outcomes = <<>>

Pitches == {60, 67}
Tonics == {59, 60, 62, 69}
Modes == {"major", "minor", "dorian"}
EstimatedModes == {"major", "minor"}

EventSet ==
    {Note(p, d) : p \in Pitches, d \in 1..MaxDur} \cup {Rest(d) : d \in 1..MaxDur}

DefaultKey == Key(PitchC, "major")

\* element 4 of the first measure and the estimate song.analyze("key") gives
KeySituations ==
    {[element4 |-> Key(t, m), analysis |-> DefaultKey] : t \in Tonics, m \in Modes}
    \cup {[element4 |-> OtherElement, analysis |-> Key(t, m)] :
             t \in Tonics, m \in EstimatedModes}
    \cup {[element4 |-> [cls |-> "IndexError", tonic |-> 0, mode |-> "none"],
           analysis |-> DefaultKey]}

Song(events, ks) ==
    [events |-> events, element4 |-> ks.element4, analysis |-> ks.analysis]

PlainSongs ==
    {Song(ev, [element4 |-> DefaultKey, analysis |-> DefaultKey]) :
        ev \in SeqsUpTo(EventSet, MaxEvents)}

KeyedSongs ==
    {Song(ev, ks) : ev \in SeqsUpTo(EventSet, MaxEvents), ks \in KeySituations}

InitSong ==
    /\ PipeIdle
    /\ ret = NotCalled
    /\ \/ call \in {[fn |-> "filter", song |-> s, time_step |-> DefaultTimeStep] :
                       s \in PlainSongs}
       \/ call \in {[fn |-> "encode", song |-> s, time_step |-> t] :
                       s \in PlainSongs, t \in 1..MaxTimeStep}
       \/ call \in {[fn |-> "transpose", song |-> s, time_step |-> DefaultTimeStep] :
                       s \in KeyedSongs}

CallFilter ==
    /\ call.fn = "filter" /\ ret = NotCalled
    /\ ret' = [fn |-> "filter",
               value |-> has_acceptable_note_durations(call.song, ACCEPTABLE_DURATIONS)]
    /\ UNCHANGED <<pipeVars, call>>

CallTranspose ==
    /\ call.fn = "transpose" /\ ret = NotCalled
    /\ ret' = [fn |-> "transpose"] @@ transpose(call.song)
    /\ UNCHANGED <<pipeVars, call>>

CallEncode ==
    /\ call.fn = "encode" /\ ret = NotCalled
    /\ ret' = [fn |-> "encode", value |-> encode_song(call.song, call.time_step)]
    /\ UNCHANGED <<pipeVars, call>>

NextSong == CallFilter \/ CallTranspose \/ CallEncode

SpecSong == InitSong /\ [][NextSong]_vars

(***************************************************************************)
(* Properties of the score functions                                       *)
(***************************************************************************)
RECURSIVE RoundedSum(_, _, _)
RoundedSum(events, k, time_step) ==
    IF k > Len(events) THEN 0
    ELSE Round(events[k].dur, time_step) + RoundedSum(events, k + 1, time_step)

RECURSIVE TruncatedSum(_, _, _)
TruncatedSum(events, k, time_step) ==
    IF k > Len(events) THEN 0
    ELSE (events[k].dur \div time_step) + TruncatedSum(events, k + 1, time_step)

AllMultiples(events, time_step) == \A k \in DOMAIN events : events[k].dur % time_step = 0

\* C1: has_acceptable_note_durations(S) is false iff at least one note or rest
\* event of S has a duration outside the accepted set (so true for no events,
\* false when only a rest is out of the set).
C1_FalseIffSomeEventOutOfSet ==
    ret.fn = "filter" =>
        (ret.value = FALSE <=>
            \E k \in DOMAIN call.song.events :
                call.song.events[k].dur \notin ACCEPTABLE_DURATIONS)

\* C5 as stated: for a score the duration filter accepts, the number of tokens
\* encode_song emits is the sum over the events of round(duration / time_step).
C5_LengthIsRoundedSum ==
    (ret.fn = "encode"
     /\ has_acceptable_note_durations(call.song, ACCEPTABLE_DURATIONS)) =>
        Len(Split(ret.value))
            = RoundedSum(call.song.events, 1, call.time_step)

\* C5 amended: the number of tokens is the sum over the events of
\* int(duration / time_step), the truncated quotient; it is the rounded sum
\* whenever every duration is an exact multiple of the time step.
C5_LengthIsTruncatedSum ==
    ret.fn = "encode" =>
        /\ Len(Split(ret.value))
            = TruncatedSum(call.song.events, 1, call.time_step)
        /\ AllMultiples(call.song.events, call.time_step) =>
            Len(Split(ret.value))
                = RoundedSum(call.song.events, 1, call.time_step)

\* an encode call on a score with a note whose duration the time step does not
\* divide, and with tokens emitted
C5_Witness ==
    /\ ret.fn = "encode"
    /\ Len(ret.value) > 0
    /\ \E k \in DOMAIN call.song.events :
          /\ call.song.events[k].kind = "note"
          /\ call.song.events[k].dur % call.time_step # 0
          /\ call.song.events[k].dur > call.time_step

\* the pitch a token's text denotes
ParsePitch(token) ==
    IF \E p \in 0..127 : ToString(p) = token
    THEN CHOOSE p \in 0..127 : ToString(p) = token
    ELSE -1

\* tokens -> (symbol, run length) pairs: a non-hold token starts a run, each
\* following "_" extends it
RECURSIVE Decode(_, _, _)
Decode(toks, k, runs) ==
    IF k > Len(toks) THEN runs
    ELSE IF toks[k] = HOLD /\ Len(runs) > 0
         THEN Decode(toks, k + 1,
                     [runs EXCEPT ![Len(runs)] = [@ EXCEPT !.steps = @ + 1]])
         ELSE Decode(toks, k + 1,
                     Append(runs,
                            IF toks[k] = REST
                            THEN [kind |-> "rest", steps |-> 1]
                            ELSE [kind |-> "note", pitch |-> ParsePitch(toks[k]),
                                  steps |-> 1]))

\* the events as (pitch-or-rest, duration / time_step)
Runs(events, time_step) ==
    [k \in DOMAIN events |->
        IF events[k].kind = "rest"
        THEN [kind |-> "rest", steps |-> events[k].dur \div time_step]
        ELSE [kind |-> "note", pitch |-> events[k].pitch,
              steps |-> events[k].dur \div time_step]]

\* C6: when every duration is an exact positive multiple of the time step,
\* decoding encode_song's output into (symbol, run length) pairs gives back the
\* ordered list of (pitch-or-rest, duration / time_step) of the events.
C6_DecodeRecoversEvents ==
    (ret.fn = "encode" /\ AllMultiples(call.song.events, call.time_step)) =>
        Decode(Split(ret.value), 1, <<>>) = Runs(call.song.events, call.time_step)

\* two consecutive events of the same pitch, each held for more than one step
C6_Witness ==
    /\ ret.fn = "encode"
    /\ AllMultiples(call.song.events, call.time_step)
    /\ Len(call.song.events) = 2
    /\ call.song.events[1] = call.song.events[2]
    /\ call.song.events[1].kind = "note"
    /\ call.song.events[1].dur > call.time_step

\* C9: for a score whose key has mode major or minor, transpose moves every
\* pitched event by one interval that takes the key's tonic to C (major) or to
\* A (minor); rests, and the number, order and durations of events, are kept.
C9_UniformShiftToCOrA ==
    (ret.fn = "transpose"
     /\ call.song.element4.cls # "IndexError"
     /\ KeyOf(call.song).mode \in {"major", "minor"}) =>
        /\ ret.ok
        /\ Len(ret.value.events) = Len(call.song.events)
        /\ \E iv \in -12..12 :
              /\ (KeyOf(call.song).tonic + iv) % 12
                    = IF KeyOf(call.song).mode = "major" THEN 0 ELSE 9
              /\ \A k \in DOMAIN call.song.events :
                    LET old == call.song.events[k]
                        new == ret.value.events[k]
                    IN  /\ new.kind = old.kind
                        /\ new.dur = old.dur
                        /\ old.kind = "rest" => new = old
                        /\ old.kind = "note" => new.pitch = old.pitch + iv

\* a minor-key score, its key estimated, with a note and a rest, moved by a
\* non-zero interval
C9_Witness ==
    /\ ret.fn = "transpose"
    /\ ret.ok
    /\ call.song.element4.cls = "Other"
    /\ KeyOf(call.song).mode = "minor"
    /\ KeyOf(call.song).tonic # PitchA
    /\ \E j, k \in DOMAIN call.song.events :
          call.song.events[j].kind = "note" /\ call.song.events[k].kind = "rest"

(***************************************************************************)
(* Single calls of create_universal_dataset                                *)
(***************************************************************************)
FileTokens == {"60", HOLD}

\* what encode_song can have written to a per-score file: nothing, or tokens
\* that start with a symbol
FileContents ==
    {Join(t) : t \in {u \in SeqsUpTo(FileTokens, MaxTokens) : Len(u) > 0 => u[1] # HOLD}}

InitAssemble ==
    /\ PipeIdle
    /\ ret = NotCalled
    /\ call \in {[fn |-> "assemble", files |-> f, sequence_length |-> w] :
                    f \in SeqsUpTo(FileContents, MaxFiles), w \in 1..MaxSeqLen}

CallCreateUniversalDataset ==
    /\ call.fn = "assemble" /\ ret = NotCalled
    /\ ret' = [fn |-> "assemble",
               value |-> create_universal_dataset(call.files, call.sequence_length)]
    /\ UNCHANGED <<pipeVars, call>>

NextAssemble == CallCreateUniversalDataset

SpecAssemble == InitAssemble /\ [][NextAssemble]_vars

\* the number of tokens of each file (\o makes it a tuple, computed once)
TokenCounts(files) == <<>> \o [j \in DOMAIN files |-> Len(Split(files[j]))]

\* the number of corpus tokens before the first token of each file, when every
\* file is followed by w delimiters
Starts(files, w) ==
    LET counts == TokenCounts(files)
        start[j \in DOMAIN files] ==
            IF j = 1 THEN 0 ELSE start[j - 1] + counts[j - 1] + w
    IN  <<>> \o start

\* for each place 1..n of the corpus the file whose token stands there, 0 for
\* a delimiter's place
Owners(files, n, w) ==
    LET counts == TokenCounts(files)
        start == Starts(files, w)
        holds(j, q) == start[j] < q /\ q <= start[j] + counts[j]
    IN  <<>> \o [q \in 1..n |->
                    IF \E j \in DOMAIN files : holds(j, q)
                    THEN CHOOSE j \in DOMAIN files : holds(j, q)
                    ELSE 0]

\* C3: in the corpus of create_universal_dataset every score's tokens stand in
\* place, every other token is a delimiter, and each window of sequence_length
\* consecutive tokens holds non-delimiter tokens of at most one score; a window
\* that starts in a score and runs past its end holds a delimiter and no token
\* of another score.
C3_WindowsHoldOneScore ==
    ret.fn = "assemble" =>
        LET w == call.sequence_length
            files == call.files
            toks == Split(ret.value)
            start == Starts(files, w)
            owner == Owners(files, Len(toks), w)
        IN  /\ \A j \in DOMAIN files :
                  LET ftoks == Split(files[j])
                  IN  \A k \in DOMAIN ftoks :
                          /\ start[j] + k <= Len(toks)
                          /\ toks[start[j] + k] = ftoks[k]
            /\ \A q \in DOMAIN toks : owner[q] = 0 <=> toks[q] = DELIM
            /\ \A p \in 1..(Len(toks) - w + 1) :
                  LET win == p..(p + w - 1)
                  IN  /\ Cardinality({owner[q] : q \in win} \ {0}) <= 1
                      /\ (owner[p] # 0 /\ \E q \in win : owner[q] # owner[p]) =>
                            /\ \E q \in win : toks[q] = DELIM
                            /\ \A q \in win : owner[q] \in {0, owner[p]}

\* a corpus of two scores with a window that starts in the first score and runs
\* past its end
C3_Witness ==
    /\ ret.fn = "assemble"
    /\ call.sequence_length >= 2
    /\ LET toks == Split(ret.value)
           w == call.sequence_length
           owner == Owners(call.files, Len(toks), w)
       IN  \E p \in 1..(Len(toks) - w + 1) :
              /\ owner[p] # 0
              /\ owner[p + 1] = owner[p]
              /\ toks[p + w - 1] = DELIM
              /\ \E q \in DOMAIN toks : q > p + w - 1 /\ owner[q] # 0

(***************************************************************************)
(* Single calls of create_mapping and generate_training_sequences          *)
(***************************************************************************)
CorpusAtoms == {SP, "60", HOLD, DELIM}

InitVocab ==
    /\ PipeIdle
    /\ ret = NotCalled
    /\ call \in {[fn |-> "vocab", corpus |-> c, sequence_length |-> w] :
                    c \in SeqsUpTo(CorpusAtoms, MaxCorpus), w \in 1..MaxSeqLen}

CallCreateMapping ==
    /\ call.fn = "vocab" /\ ret = NotCalled
    /\ \E m \in create_mapping(call.corpus) :
          ret' = [fn |-> "create_mapping", mappings |-> m]
    /\ UNCHANGED <<pipeVars, call>>

CallGenerateTrainingSequences ==
    /\ call.fn = "vocab" /\ ret.fn = "create_mapping"
    /\ ret' = [fn |-> "generate", mappings |-> ret.mappings]
              @@ generate_training_sequences(call.sequence_length, call.corpus,
                                             ret.mappings)
    /\ UNCHANGED <<pipeVars, call>>

NextVocab == CallCreateMapping \/ CallGenerateTrainingSequences

SpecVocab == InitVocab /\ [][NextVocab]_vars

\* C4: the mapping of create_mapping is a bijection between the distinct
\* white-space separated tokens of the corpus and 0..N-1, N their number.
C4_MappingIsDenseBijection ==
    ret.fn = "create_mapping" =>
        LET distinct == Range(Split(call.corpus))
            m == ret.mappings
        IN  /\ DOMAIN m = distinct
            /\ \A a, b \in DOMAIN m : m[a] = m[b] => a = b
            /\ {m[a] : a \in DOMAIN m} = 0..(Cardinality(distinct) - 1)

\* a corpus with two distinct tokens, one of them repeated
C4_Witness ==
    /\ ret.fn = "create_mapping"
    /\ Cardinality(DOMAIN ret.mappings) >= 2
    /\ Len(Split(call.corpus)) > Cardinality(DOMAIN ret.mappings)

\* C2: with L the length of the integer corpus and W the window width,
\* generate_training_sequences raises nothing and produces L - W pairs when
\* L > W and none when L <= W; context i is corpus[i .. i+W-1] and target i is
\* corpus[i+W].
C2_PairsForEveryLength ==
    ret.fn = "generate" =>
        LET W == call.sequence_length
            corpus == [k \in DOMAIN Split(call.corpus) |-> ret.mappings[Split(call.corpus)[k]]]
            L == Len(corpus)
        IN  /\ ret.ok
            /\ Len(ret.inputs) = (IF L > W THEN L - W ELSE 0)
            /\ Len(ret.targets) = Len(ret.inputs)
            /\ \A i \in 0..(Len(ret.inputs) - 1) :
                  /\ Len(ret.inputs[i + 1]) = W
                  /\ \A j \in 0..(W - 1) : ret.inputs[i + 1][j + 1] = corpus[i + j + 1]
                  /\ ret.targets[i + 1] = corpus[i + W + 1]

(***************************************************************************)
(* The batch run: generate_model_ready_dataset, executed MaxRuns times over *)
(* a dataset directory that may change between executions.  SONGS_DIR, the *)
(* corpus file and the vocabulary file stay on disk between executions.    *)
(***************************************************************************)
KrnFile(ok, events, element4, analysis) ==
    [parse_ok |-> ok,
     song |-> [events |-> events, element4 |-> element4, analysis |-> analysis]]

\* D major, written in the score: becomes "60 _"
FileMajor == KrnFile(TRUE, <<Note(62, 4)>>, Key(62, "major"), DefaultKey)
\* D minor, estimated: becomes "r 60"
FileMinor == KrnFile(TRUE, <<Rest(2), Note(53, 2)>>, OtherElement, Key(62, "minor"))
\* a note of 0.375 quarter lengths
FileBadDuration == KrnFile(TRUE, <<Note(60, 3)>>, DefaultKey, DefaultKey)
\* a key whose mode is neither major nor minor
FileDorian == KrnFile(TRUE, <<Note(62, 4)>>, Key(62, "dorian"), DefaultKey)
\* a file music21 cannot parse
FileUnparseable == KrnFile(FALSE, <<>>, DefaultKey, DefaultKey)
\* a score without notes or rests
FileSilent == KrnFile(TRUE, <<>>, DefaultKey, DefaultKey)

KrnFiles == {FileMajor, FileMinor, FileBadDuration, FileDorian, FileUnparseable, FileSilent}

Datasets == SeqsUpTo(KrnFiles, MaxSongs)

Init ==
    /\ pc = "load"
    /\ run = 1
    /\ dataset \in Datasets
    /\ scores = <<>>
    /\ idx = 0
    /\ songs_dir = <<>>
    /\ dataset_file = <<>>
    /\ songs = <<>>
    /\ mappings_file = <<>>
    /\ result = <<>>
    /\ error = "none"
    /\ outcomes = <<>>
    /\ call = NotCalled
    /\ ret = NotCalled

\* an uncaught exception ends the execution
Abort(exc) ==
    /\ pc' = "aborted"
    /\ error' = exc
    /\ outcomes' = Append(outcomes, "aborted")

\* load_dataset: parses every krn file; a parse error is not caught
LoadDataset ==
    /\ pc = "load"
    /\ IF \E k \in DOMAIN dataset : ~dataset[k].parse_ok
       THEN /\ Abort("ConverterException")
            /\ UNCHANGED <<scores, idx>>
       ELSE /\ scores' = [k \in DOMAIN dataset |-> dataset[k].song]
            /\ idx' = 0
            /\ pc' = IF Len(dataset) = 0 THEN "assemble" ELSE "preprocess"
            /\ UNCHANGED <<error, outcomes>>
    /\ UNCHANGED <<run, dataset, songs_dir, dataset_file, songs, mappings_file, result,
                   call, ret>>

\* the file SONGS_DIR/str(i) after open(save_path, "w") and write
WriteSong(dir, i, content) ==
    [name \in DOMAIN dir \cup {i} |-> IF name = i THEN content ELSE dir[name]]

\* one iteration of the loop of preprocess, for i = idx
PreprocessSong ==
    /\ pc = "preprocess"
    /\ idx < Len(scores)
    /\ LET song == scores[idx + 1]
           transposed == transpose(song)
           next_pc == IF idx + 1 = Len(scores) THEN "assemble" ELSE "preprocess"
       IN  IF ~has_acceptable_note_durations(song, ACCEPTABLE_DURATIONS)
           THEN /\ idx' = idx + 1
                /\ pc' = next_pc
                /\ UNCHANGED <<songs_dir, error, outcomes>>
           ELSE IF ~transposed.ok
           THEN /\ Abort(transposed.exc)
                /\ UNCHANGED <<songs_dir, idx>>
           ELSE /\ songs_dir' = WriteSong(songs_dir, idx,
                                          encode_song(transposed.value, DefaultTimeStep))
                /\ idx' = idx + 1
                /\ pc' = next_pc
                /\ UNCHANGED <<error, outcomes>>
    /\ UNCHANGED <<run, dataset, scores, dataset_file, songs, mappings_file, result,
                   call, ret>>

\* create_universal_dataset(SONGS_DIR, UNIVERSAL_DATASET, SEQUENCE_LENGTH): os.walk
\* lists the files of SONGS_DIR in an order of its own
CreateUniversalDataset ==
    /\ pc = "assemble"
    /\ \E order \in Orderings(DOMAIN songs_dir) :
          LET contents == [k \in DOMAIN order |-> songs_dir[order[k]]]
          IN  /\ songs' = create_universal_dataset(contents, SEQUENCE_LENGTH)
              /\ dataset_file' = songs'
    /\ pc' = "mapping"
    /\ UNCHANGED <<run, dataset, scores, idx, songs_dir, mappings_file, result, error,
                   outcomes, call, ret>>

\* create_mapping(songs, MAPPINGS_PATH)
CreateMapping ==
    /\ pc = "mapping"
    /\ mappings_file' \in create_mapping(songs)
    /\ pc' = "convert"
    /\ UNCHANGED <<run, dataset, scores, idx, songs_dir, dataset_file, songs, result,
                   error, outcomes, call, ret>>

\* convert_songs_to_int(songs), its value dropped
ConvertSongsToInt ==
    /\ pc = "convert"
    /\ IF convert_songs_to_int(songs, mappings_file).ok
       THEN pc' = "generate" /\ UNCHANGED <<error, outcomes>>
       ELSE Abort("KeyError")
    /\ UNCHANGED <<run, dataset, scores, idx, songs_dir, dataset_file, songs,
                   mappings_file, result, call, ret>>

\* inputs, targets = generate_training_sequences(SEQUENCE_LENGTH)
GenerateTrainingSequences ==
    /\ pc = "generate"
    /\ LET r == generate_training_sequences(SEQUENCE_LENGTH, dataset_file, mappings_file)
       IN  IF r.ok
           THEN /\ result' = r
                /\ pc' = "done"
                /\ outcomes' = Append(outcomes, "done")
                /\ UNCHANGED error
           ELSE /\ Abort(r.exc)
                /\ UNCHANGED result
    /\ UNCHANGED <<run, dataset, scores, idx, songs_dir, dataset_file, songs,
                   mappings_file, call, ret>>

\* the script is executed again; the files it wrote are still there
NewRun ==
    /\ pc \in {"done", "aborted"}
    /\ run < MaxRuns
    /\ run' = run + 1
    /\ dataset' \in Datasets
    /\ pc' = "load"
    /\ scores' = <<>>
    /\ idx' = 0
    /\ songs' = <<>>
    /\ result' = <<>>
    /\ error' = "none"
    /\ UNCHANGED <<songs_dir, dataset_file, mappings_file, outcomes, call, ret>>

Next ==
    \/ LoadDataset
    \/ PreprocessSong
    \/ CreateUniversalDataset
    \/ CreateMapping
    \/ ConvertSongsToInt
    \/ GenerateTrainingSequences
    \/ NewRun

Spec == Init /\ [][Next]_vars

(***************************************************************************)
(* Properties of the batch run                                             *)
(***************************************************************************)
\* the score of file k can be processed: it parses, passes the duration filter
\* and has a key transpose can use
Processable(k) ==
    /\ dataset[k].parse_ok
    /\ has_acceptable_note_durations(dataset[k].song, ACCEPTABLE_DURATIONS)
    /\ transpose(dataset[k].song).ok

\* the token file such a score gets
TokensOf(k) == encode_song(transpose(dataset[k].song).value, DefaultTimeStep)

\* C7: a score that cannot be processed does not abort the batch: when an
\* execution has ended, every other score that can be processed has its
\* per-score token file, written under its index.
C7_BadScoreDoesNotAbort ==
    pc \in {"done", "aborted"} =>
        \A k \in DOMAIN dataset :
            Processable(k) =>
                /\ (k - 1) \in DOMAIN songs_dir
                /\ songs_dir[k - 1] = TokensOf(k)

\* C8: in a completed execution the one-hot width is the size of the vocabulary
\* create_mapping wrote, every id of a context is below it, the contexts have
\* shape (num_sequences, SEQUENCE_LENGTH, vocabulary_size) and the targets have
\* shape (num_sequences,).
C8_OneHotShape ==
    pc = "done" =>
        LET vocabulary_size == Cardinality(DOMAIN mappings_file)
            num_sequences == Len(result.targets)
        IN  /\ \A i \in DOMAIN result.inputs : \A j \in DOMAIN result.inputs[i] :
                  result.inputs[i][j] < vocabulary_size
            /\ result.shape = <<num_sequences, SEQUENCE_LENGTH, vocabulary_size>>
            /\ result.targets_shape = <<num_sequences>>

\* the indices of the scores the current execution accepted
AcceptedIndices == {k - 1 : k \in {j \in DOMAIN dataset : Processable(j)}}

\* C10: after complete executions only, the corpus the latest one wrote is made
\* of the token sequences of exactly the scores that execution accepted, one
\* per score, each followed by one delimiter block.
C10_CorpusIsLatestRunsScores ==
    (pc = "done" /\ \A r \in DOMAIN outcomes : outcomes[r] = "done") =>
        \E order \in Orderings(AcceptedIndices) :
            dataset_file =
                create_universal_dataset([k \in DOMAIN order |-> TokensOf(order[k] + 1)],
                                         SEQUENCE_LENGTH)

====
